---- MODULE Spec2Model ----
(***************************************************************************)
(* Leafs Prediction Game: the prediction ledger (database.py), its use by  *)
(* the web handlers and the resolution pass (app.py), and the predictor    *)
(* entry point (app.py get_model_prediction, model.py predict_game).       *)
(***************************************************************************)
EXTENDS Integers, Sequences, FiniteSets, TLC

\* ------------------------------------------------------------------ bounds
\* Rows the predictions table may hold.
MaxRows == 2
\* Rows of leafs_data.csv (the in-memory game table) in the predictor runs.
MaxHist == 6
\* Largest score a form or an outcome carries in the scoring runs.
MaxScore == 1
\* Games a season table holds before its closing run, and the longest run.
MaxPrefix == 2
MaxRun == 21
\* Failed cycles a thread counts.
MaxErrors == 1

\* ------------------------------------------------------- values and inputs
None == "None"
NULL == "NULL"

TEAM == "TOR"

Users == {"ann", "bob"}
\* GROUP BY username delivers the groups in key order.
UserOrder == <<"ann", "bob">>

Games == {1, 2}

\* The two sides of each game of the schedule feed: game 1 is a home game,
\* game 2 an away game.
HomeAbbrev(g) == IF g = 1 THEN TEAM ELSE "MTL"
AwayAbbrev(g) == IF g = 1 THEN "BOS" ELSE TEAM

\* gameState values of the feed, in the order a game passes through them.
GameStates == <<"FUT", "LIVE", "FINAL", "OFF">>

\* The scores <<home, away>> the feed reports for a game.
ScoreLines == {<<0, 0>>, <<1, 0>>, <<0, 1>>}

\* What a user posts to /submit_prediction (the guess and the scoreline).
Forms ==
    { [user_prediction |-> "W", user_score_leafs |-> 1, user_score_opponent |-> 0],
      [user_prediction |-> "L", user_score_leafs |-> 0, user_score_opponent |-> 1] }

VARIABLES
    predictions,   \* the predictions table, row i has id i
    schedule,      \* the club-schedule-season feed: game id -> game
    ml_model,      \* app.ml_model
    ml_scaler,     \* app.ml_scaler
    game_data,     \* app.game_data
    pc,            \* position of each thread inside check_and_resolve_games
    pending,       \* each thread's local `pending`
    all_games,     \* each thread's local `all_games`
    model_pred,    \* what the last call of get_model_prediction returned
    csv,           \* leafs_data.csv
    model_file,    \* leafs_model.pkl
    train,         \* the locals of the last run of the training path
    features,      \* the live vector predict_game built for the predict page
    cycle,         \* position and locals of each thread in auto_update_cycle
    reader,        \* position and locals of a request in get_model_prediction
    generation,    \* the training run that made the objects behind ml_model, ml_scaler
    update_lock,   \* app.update_lock: the thread that holds it
    update_locals  \* each thread's locals inside update_game_data

\* The files and the state of the update cycle.
updateVars == <<csv, model_file, train, cycle, reader, generation>>

\* update_lock and what the threads inside update_game_data hold.
lockVars == <<update_lock, update_locals>>

vars == <<predictions, schedule, ml_model, ml_scaler, game_data,
          pc, pending, all_games, model_pred, features, updateVars, lockVars>>


\* ---------------------------------------------------------- small helpers
Max(a, b) == IF a >= b THEN a ELSE b

\* DataFrame.tail(n)
tail(s, n) == SubSeq(s, Max(1, Len(s) - n + 1), Len(s))

\* ------------------------------------------------------------- the ledger
\* A row of the predictions table as INSERT leaves it: the actual_* columns
\* are NULL, the points and is_resolved take their DEFAULT 0.
NewRow(id, username, game_id, game_date, user_prediction, user_score_leafs, user_score_opponent, model_prediction, model_win_probability) ==
    [ id |-> id, username |-> username, game_id |-> game_id,
      game_date |-> game_date,
      user_prediction |-> user_prediction,
      user_score_leafs |-> user_score_leafs,
      user_score_opponent |-> user_score_opponent,
      model_prediction |-> model_prediction,
      model_win_probability |-> model_win_probability,
      actual_result |-> NULL, actual_score_leafs |-> NULL,
      actual_score_opponent |-> NULL,
      user_points |-> 0, model_points |-> 0, is_resolved |-> 0 ]

\* INSERT INTO predictions ...: no look-up of an existing row and no
\* constraint on (username, game_id); the id is the next AUTOINCREMENT value.
add_prediction(preds, username, game_id, game_date, user_prediction, user_score_leafs, user_score_opponent, model_prediction, model_win_probability) ==
    Append(preds,
           NewRow(Len(preds) + 1, username, game_id, game_date, user_prediction,
                  user_score_leafs, user_score_opponent, model_prediction,
                  model_win_probability))

\* SELECT id FROM predictions WHERE game_id = ? AND username = ?
prediction_exists(preds, game_id, username) ==
    \E i \in DOMAIN preds :
        preds[i].game_id = game_id /\ preds[i].username = username

\* user_points_of with every correct pick worth 3 points.
user_points_any_correct(pred, actual_result, actual_score_leafs, actual_score_opponent) ==
    IF pred.user_prediction = actual_result THEN 3 ELSE 0

\* user_points_of with an exact scoreline worth 2 points.
user_points_two_for_exact(pred, actual_result, actual_score_leafs, actual_score_opponent) ==
    IF pred.user_prediction = actual_result
    THEN IF pred.user_score_leafs = actual_score_leafs
            /\ pred.user_score_opponent = actual_score_opponent
         THEN 2
         ELSE 1
    ELSE 0

\* "User-Punkte berechnen"
user_points_of(pred, actual_result, actual_score_leafs, actual_score_opponent) ==
    IF pred.user_prediction = actual_result
    THEN IF pred.user_score_leafs = actual_score_leafs
            /\ pred.user_score_opponent = actual_score_opponent
         THEN 3
         ELSE 1
    ELSE 0

\* model_points_of reading the user's guess in place of the model's.
model_points_from_user_guess(pred, actual_result) ==
    IF pred.user_prediction = actual_result THEN 1 ELSE 0

\* "Modell-Punkte berechnen"
model_points_of(pred, actual_result) ==
    IF pred.model_prediction = actual_result THEN 1 ELSE 0

\* resolve_prediction adding the points to those the row already has.
resolve_prediction_accumulate(preds, prediction_id, actual_result, actual_score_leafs, actual_score_opponent) ==
    IF prediction_id \notin DOMAIN preds
    THEN preds
    ELSE [preds EXCEPT ![prediction_id] =
            [@ EXCEPT !.actual_result = actual_result,
                      !.actual_score_leafs = actual_score_leafs,
                      !.actual_score_opponent = actual_score_opponent,
                      !.user_points = @ + user_points_of(preds[prediction_id], actual_result, actual_score_leafs, actual_score_opponent),
                      !.model_points = @ + model_points_of(preds[prediction_id], actual_result),
                      !.is_resolved = 1]]

\* SELECT the row by id; return if there is none; UPDATE the six columns.
\* The UPDATE has no condition on is_resolved.
resolve_prediction(preds, prediction_id, actual_result, actual_score_leafs, actual_score_opponent) ==
    IF prediction_id \notin DOMAIN preds
    THEN preds
    ELSE [preds EXCEPT ![prediction_id] =
            [@ EXCEPT !.actual_result = actual_result,
                      !.actual_score_leafs = actual_score_leafs,
                      !.actual_score_opponent = actual_score_opponent,
                      !.user_points = user_points_of(preds[prediction_id], actual_result, actual_score_leafs, actual_score_opponent),
                      !.model_points = model_points_of(preds[prediction_id], actual_result),
                      !.is_resolved = 1]]

\* The dates the ledger's rows carry: a game's date is its place in the
\* schedule, so game_date = game_id.
GameDate(g) == g

RECURSIVE OrderByGameDateAsc(_, _)
\* ORDER BY game_date ASC over `rows`, from date d on (rows of one date keep
\* their rowid order).
OrderByGameDateAsc(rows, d) ==
    IF \A i \in DOMAIN rows : rows[i].game_date < d
    THEN <<>>
    ELSE SelectSeq(rows, LAMBDA r : r.game_date = d) \o OrderByGameDateAsc(rows, d + 1)

\* get_pending_predictions with the username filter set to one user.
get_pending_predictions_of_ann(preds) ==
    OrderByGameDateAsc(SelectSeq(preds, LAMBDA r : r.is_resolved = 0 /\ r.username = "ann"), 1)

\* SELECT * FROM predictions WHERE is_resolved = 0 ORDER BY game_date ASC
get_pending_predictions(preds) ==
    OrderByGameDateAsc(SelectSeq(preds, LAMBDA r : r.is_resolved = 0), 1)

\* ------------------------------------------------------------ leaderboard
RECURSIVE SumUserPoints(_)
\* SUM(user_points)
SumUserPoints(rows) ==
    IF rows = <<>> THEN 0 ELSE Head(rows).user_points + SumUserPoints(Tail(rows))

RECURSIVE SumModelPoints(_)
\* SUM(model_points)
SumModelPoints(rows) ==
    IF rows = <<>> THEN 0 ELSE Head(rows).model_points + SumModelPoints(Tail(rows))

\* ResolvedOf without the is_resolved condition.
AllRowsOf(preds, u) == SelectSeq(preds, LAMBDA r : r.username = u)

\* WHERE is_resolved = 1 AND username = u (one group of GROUP BY username)
ResolvedOf(preds, u) ==
    SelectSeq(preds, LAMBDA r : r.is_resolved = 1 /\ r.username = u)

\* WHERE is_resolved = 1
Resolved(preds) == SelectSeq(preds, LAMBDA r : r.is_resolved = 1)

\* One row of the per-user query.
UserStats(preds, u) ==
    LET rows == ResolvedOf(preds, u)
    IN  [ username |-> u,
          total_games |-> Len(rows),
          total_points |-> SumUserPoints(rows),
          correct |-> Len(SelectSeq(rows, LAMBDA r : r.user_points > 0)),
          exact |-> Len(SelectSeq(rows, LAMBDA r : r.user_points = 3)) ]

RECURSIVE GroupByUsername(_, _)
\* GROUP BY username: one row for each user that has a row in the WHERE set.
GroupByUsername(preds, k) ==
    IF k > Len(UserOrder)
    THEN <<>>
    ELSE (IF ResolvedOf(preds, UserOrder[k]) = <<>>
          THEN <<>>
          ELSE <<UserStats(preds, UserOrder[k])>>)
         \o GroupByUsername(preds, k + 1)

\* Where row r goes in a sequence already in descending total_points order.
InsertDesc(sorted, r) ==
    LET before == SelectSeq(sorted, LAMBDA x : x.total_points >= r.total_points)
        after  == SelectSeq(sorted, LAMBDA x : x.total_points < r.total_points)
    IN  before \o <<r>> \o after

\* OrderByTotalPointsDesc without the ORDER BY.
OrderAsGrouped(rows) == rows

RECURSIVE OrderByTotalPointsDesc(_)
\* ORDER BY total_points DESC (rows with equal totals stay in group order).
OrderByTotalPointsDesc(rows) ==
    IF rows = <<>>
    THEN <<>>
    ELSE InsertDesc(OrderByTotalPointsDesc(SubSeq(rows, 1, Len(rows) - 1)), rows[Len(rows)])

\* for i, u in enumerate(user_rows): "rank": i + 1
WithRank(user_rows) ==
    [i \in DOMAIN user_rows |->
        [ rank |-> i,
          username |-> user_rows[i].username,
          total_games |-> user_rows[i].total_games,
          total_points |-> user_rows[i].total_points,
          correct |-> user_rows[i].correct,
          exact |-> user_rows[i].exact ]]

\* The aggregate query over all resolved rows.
ModelStats(preds) ==
    LET rows == Resolved(preds)
    IN  [ total_games |-> Len(rows),
          total_points |-> SumModelPoints(rows),
          correct |-> Len(SelectSeq(rows, LAMBDA r : r.model_points > 0)) ]

\* The accuracy percentage of each row is a rounding of correct / total and is
\* left out.
get_leaderboard(preds) ==
    [ users |-> WithRank(OrderByTotalPointsDesc(GroupByUsername(preds, 1))),
      model |-> ModelStats(preds) ]

\* -------------------------------------------------------------- predictor
\* The families train_all_models can return.
Models == {"Gradient Boosting", "Random Forest"}

\* A DataFrame, or None where the CSV could not be read.
NoFrame == [none |-> TRUE, rows |-> <<>>]
Frame(rows) == [none |-> FALSE, rows |-> rows]

\* The rows leafs_data.csv can hold: a home win over BOS, a home loss to BOS,
\* an away loss at MTL.
HistoryRows ==
    { [result |-> "W", leafs_score |-> 1, opponent_score |-> 0, opponent |-> "BOS", is_home |-> 1],
      [result |-> "L", leafs_score |-> 0, opponent_score |-> 1, opponent |-> "BOS", is_home |-> 1],
      [result |-> "L", leafs_score |-> 0, opponent_score |-> 1, opponent |-> "MTL", is_home |-> 0] }

\* Every game table of at most n rows.
Histories(n) == UNION { [1..k -> HistoryRows] : k \in 0..n }

\* The fitted estimator is a library object; it stands here as a function of
\* the feature vector: the class-1 probability (in percent) is above one half
\* exactly when the trailing win rate is at least one half.
predict_proba(model, X) ==
    LET strong == 2 * X.rolling_win_pct[1] >= X.rolling_win_pct[2]
    IN  IF model = "Gradient Boosting"
        THEN (IF strong THEN 62 ELSE 38)
        ELSE (IF strong THEN 55 ELSE 45)

RECURSIVE SumSeq(_)
\* Series.sum()
SumSeq(xs) == IF xs = <<>> THEN 0 ELSE Head(xs) + SumSeq(Tail(xs))

\* A column of a table.
Column(rows, name) == [i \in DOMAIN rows |-> rows[i][name]]

\* (recent["result"] == "W").sum()
Wins(rows) == Len(SelectSeq(rows, LAMBDA r : r.result = "W"))

RECURSIVE StreakScan(_, _, _)
\* for r in results[::-1]: the loop of predict_game from result k downwards.
StreakScan(results, k, streak) ==
    IF k = 0 THEN streak
    ELSE IF results[k] = "W" /\ streak >= 0 THEN StreakScan(results, k - 1, streak + 1)
    ELSE IF results[k] = "L" /\ streak <= 0 THEN StreakScan(results, k - 1, streak - 1)
    ELSE streak

\* The live feature vector of predict_game. A mean is kept as the pair
\* <<sum, count>>: the trailing win rate is wins / len(recent) over whatever
\* rows there are and 0.5 over none, the goal means are over the last five
\* rows and 3.0 over none; no row count is required. The streak is counted
\* over the last twenty rows. The columns taken from the standings and the
\* team statistics do not depend on results and are left out.
predict_game_features(opponent, is_home, recent_games) ==
    LET recent == tail(recent_games, 10)
        last5 == tail(recent_games, 5)
        last20 == tail(recent_games, 20)
        h2h_games == SelectSeq(recent_games, LAMBDA r : r.opponent = opponent)
    IN  [ is_home |-> IF is_home THEN 1 ELSE 0,
          opponent |-> opponent,
          rolling_win_pct |-> IF Len(recent) > 0 THEN <<Wins(recent), Len(recent)>> ELSE <<1, 2>>,
          rolling_goals_for |-> IF Len(last5) > 0 THEN <<SumSeq(Column(last5, "leafs_score")), Len(last5)>> ELSE <<3, 1>>,
          rolling_goals_against |-> IF Len(last5) > 0 THEN <<SumSeq(Column(last5, "opponent_score")), Len(last5)>> ELSE <<3, 1>>,
          goal_diff_rolling |-> IF Len(recent) > 0 THEN SumSeq(Column(recent, "leafs_score")) - SumSeq(Column(recent, "opponent_score")) ELSE 0,
          streak |-> StreakScan(Column(last20, "result"), Len(last20), 0),
          h2h_win_pct |-> IF Len(h2h_games) >= 2 THEN <<Wins(h2h_games), Len(h2h_games)>> ELSE <<1, 2>>,
          rest_days |-> 2,
          is_back_to_back |-> 0 ]

\* predict_game: ml_scaler is None for the tree families, so the features go
\* to the estimator as built.
predict_game(model, opponent, is_home, recent_games, scaler) ==
    LET win_prob == predict_proba(model, predict_game_features(opponent, is_home, recent_games))
    IN  [ prediction |-> IF win_prob > 50 THEN "W" ELSE "L",
          win_probability |-> win_prob,
          loss_probability |-> 100 - win_prob,
          confidence |-> Max(win_prob, 100 - win_prob) ]

\* get_model_prediction's None.
NonePred == [prediction |-> None]

get_model_prediction(opponent, is_home) ==
    IF ml_model = None \/ game_data.none
    THEN NonePred
    ELSE predict_game(ml_model, opponent, is_home, game_data.rows, ml_scaler)

\* ---------------------------------------------------------- training path
\* A row of leafs_data.csv.
CsvRow(game_id, date, rest_days, r) ==
    [ game_id |-> game_id, date |-> date, opponent |-> r.opponent,
      is_home |-> r.is_home, leafs_score |-> r.leafs_score,
      opponent_score |-> r.opponent_score, result |-> r.result,
      rest_days |-> rest_days ]

\* The table data.py wrote for the games h played before game 1 of the
\* schedule: one game a day, the last one on day 0.
SeasonTable(h) == [i \in DOMAIN h |-> CsvRow(i - Len(h), i - Len(h), 1, h[i])]

\* The place of row i of df in date order (rows of one date in table order).
DateRank(df, i) ==
    Cardinality({j \in DOMAIN df : df[j].date < df[i].date \/ (df[j].date = df[i].date /\ j < i)}) + 1

\* df.sort_values("date").reset_index(drop=True)
sort_values(df) == [k \in DOMAIN df |-> df[CHOOSE i \in DOMAIN df : DateRank(df, i) = k]]

\* df["win"] = (df["result"] == "W").astype(int)
win(r) == IF r.result = "W" THEN 1 ELSE 0

\* The value of a window with fewer than min_periods samples.
NaN == [nan |-> TRUE, sum |-> 0, count |-> 0]

\* The window of Series.rolling(window) at row i: the rows i - window + 1 .. i,
\* row i being the last of them.
RollingWindow(xs, i, window) == SubSeq(xs, Max(1, i - window + 1), i)

\* xs.rolling(window, min_periods) at row i, as the sum and the sample count
\* (.sum() is the sum, .mean() the sum over the count).
rolling(xs, i, window, min_periods) ==
    LET w == RollingWindow(xs, i, window)
    IN  IF Len(w) < min_periods THEN NaN ELSE [nan |-> FALSE, sum |-> SumSeq(w), count |-> Len(w)]

\* The difference of two rolling sums: NaN where either is.
RollingDiff(a, b) ==
    IF a.nan \/ b.nan THEN NaN ELSE [nan |-> FALSE, sum |-> a.sum - b.sum, count |-> a.count]

RECURSIVE current_streak(_, _)
\* current_streak after the loop has passed the first k rows.
current_streak(df, k) ==
    IF k = 0
    THEN 0
    ELSE LET c == current_streak(df, k - 1)
         IN  IF df[k].result = "W"
             THEN (IF c > 0 THEN c + 1 ELSE 1)
             ELSE (IF c < 0 THEN c - 1 ELSE -1)

\* h2h_win_pct counting game i among the meetings.
h2h_win_pct_with_own_game(df, i) ==
    LET games == SelectSeq(SubSeq(df, 1, i), LAMBDA r : r.opponent = df[i].opponent)
    IN  IF Len(games) >= 2 THEN <<Wins(games), Len(games)>> ELSE <<1, 2>>

\* h2h_records[opp] when the loop reaches row i holds the rows before i
\* against row i's opponent; the percentage is kept as <<wins, meetings>>.
h2h_win_pct(df, i) ==
    LET games == SelectSeq(SubSeq(df, 1, i - 1), LAMBDA r : r.opponent = df[i].opponent)
    IN  IF Len(games) >= 2 THEN <<Wins(games), Len(games)>> ELSE <<1, 2>>

\* Row i of the table with its engineered columns (index is the row's place
\* in date order). The venue win rates are computed and not among the
\* feature columns; the standings columns do not depend on results.
FeatureRow(df, i) ==
    [ index |-> i, game_id |-> df[i].game_id, date |-> df[i].date,
      opponent |-> df[i].opponent, is_home |-> df[i].is_home,
      result |-> df[i].result, win |-> win(df[i]),
      rolling_win_pct |-> rolling([k \in DOMAIN df |-> win(df[k])], i, 10, 5),
      rolling_goals_for |-> rolling(Column(df, "leafs_score"), i, 5, 3),
      rolling_goals_against |-> rolling(Column(df, "opponent_score"), i, 5, 3),
      goal_diff_rolling |-> RollingDiff(rolling(Column(df, "leafs_score"), i, 10, 5), rolling(Column(df, "opponent_score"), i, 10, 5)),
      streak |-> current_streak(df, i - 1),
      h2h_win_pct |-> h2h_win_pct(df, i),
      rest_days |-> df[i].rest_days,
      is_back_to_back |-> IF df[i].rest_days = 1 THEN 1 ELSE 0 ]

\* dropna on the goal windows only.
dropna_goals_only(rows) ==
    SelectSeq(rows, LAMBDA r : ~r.rolling_goals_for.nan /\ ~r.rolling_goals_against.nan)

\* df.dropna(subset=["rolling_win_pct", "rolling_goals_for", "rolling_goals_against"])
dropna(rows) ==
    SelectSeq(rows, LAMBDA r : ~r.rolling_win_pct.nan /\ ~r.rolling_goals_for.nan /\ ~r.rolling_goals_against.nan)

\* add_features: the table is sorted once (line 70) and every column is
\* computed on the sorted table.
add_features(df) ==
    CHOOSE out \in { dropna([i \in DOMAIN sorted |-> FeatureRow(sorted, i)]) : sorted \in {sort_values(df)} } : TRUE

\* The estimators of train_all_models, in the order of its `models` dict.
Families == <<"Gradient Boosting", "Random Forest", "Logistic Regression">>

FamilyNames == {Families[k] : k \in DOMAIN Families}

\* The mean cross-validated accuracies cross_val_score can report for the three
\* estimators, in halves.
AccuracyLevels == {0, 1, 2}
CvMeans == [FamilyNames -> AccuracyLevels]

\* `results` before the loop has filled it.
NoResults == [n \in {} |-> 0]

\* best_model, best_accuracy, best_name, best_scaler before the loop.
NoBest == [model |-> None, accuracy |-> 0, name |-> "", scaler |-> None]

\* The `if cv_mean > best_accuracy and name != "Logistic Regression"` of the loop.
SelectBest(best, name, cv_mean) ==
    IF cv_mean > best.accuracy /\ name # "Logistic Regression"
    THEN [model |-> name, accuracy |-> cv_mean, name |-> name, scaler |-> None]
    ELSE best

RECURSIVE BestAfter(_, _)
\* The best_* variables after the loop has passed the first k estimators.
BestAfter(results, k) ==
    IF k = 0 THEN NoBest ELSE SelectBest(BestAfter(results, k - 1), Families[k], results[Families[k]])

\* The split with a training set of at least one row.
TrainRowsAtLeastOne(n) == Max(1, n - ((n + 4) \div 5))

\* train_test_split(X, y, test_size=0.2): the test set has ceil(0.2 n) rows, the
\* training set the others.
TrainRows(n) == n - ((n + 4) \div 5)

\* The locals of a run of the training path: the exception that ended it (""
\* for none), the table add_features returned, the estimators fit has
\* returned for, the accuracies, what train_all_models returned and whether
\* save_model has written the model file.
TrainRun(step, error, df, fitted, results, best, saved) ==
    [ step |-> step, error |-> error, df |-> df, fitted |-> fitted, results |-> results,
      model |-> best.model, accuracy |-> best.accuracy, name |-> best.name,
      scaler |-> best.scaler, saved |-> saved ]

\* No run yet.
NoTrain == TrainRun("none", "", <<>>, <<>>, NoResults, NoBest, FALSE)

\* df = load_data(); df = add_features(df)
LoadedFeatures(file) ==
    IF file.none
    THEN TrainRun("done", "FileNotFoundError", <<>>, <<>>, NoResults, NoBest, FALSE)
    ELSE TrainRun("features", "", add_features(file.rows), <<>>, NoResults, NoBest, FALSE)

\* train_all_models(df) and save_model. train_test_split raises ValueError
\* for an empty training set, before any estimator is made; fit and
\* cross_val_score are library calls that return the accuracies cv or raise
\* (fit_ok); best_model.predict raises AttributeError where the loop has
\* selected no estimator; joblib.dump writes the file or raises (save_ok).
TrainedAndSaved(df, cv, fit_ok, save_ok) ==
    IF TrainRows(Len(df)) <= 0
    THEN TrainRun("done", "ValueError", df, <<>>, NoResults, NoBest, FALSE)
    ELSE IF ~fit_ok
    THEN TrainRun("done", "FitError", df, <<>>, NoResults, NoBest, FALSE)
    ELSE IF BestAfter(cv, Len(Families)).model = None
    THEN TrainRun("done", "AttributeError", df, Families, cv, BestAfter(cv, Len(Families)), FALSE)
    ELSE IF ~save_ok
    THEN TrainRun("done", "OSError", df, Families, cv, BestAfter(cv, Len(Families)), FALSE)
    ELSE TrainRun("done", "", df, Families, cv, BestAfter(cv, Len(Families)), TRUE)

\* What joblib.dump leaves in leafs_model.pkl.
NoModelFile == [none |-> TRUE, model |-> None, scaler |-> None]
ModelFile(model, scaler) == [none |-> FALSE, model |-> model, scaler |-> scaler]

\* python3 model.py, first half: load_data and add_features.
main_add_features ==
    /\ train.step = "none"
    /\ train' = LoadedFeatures(csv)
    /\ UNCHANGED <<predictions, schedule, ml_model, ml_scaler, game_data, pc, pending, all_games, model_pred, features, csv, model_file, cycle, reader, generation, lockVars>>

\* python3 model.py, second half: train_all_models and save_model.
main_train_all_models(cv, fit_ok, save_ok) ==
    /\ train.step = "features"
    /\ LET run == TrainedAndSaved(train.df, cv, fit_ok, save_ok)
       IN  /\ train' = run
           /\ model_file' = IF run.saved THEN ModelFile(run.model, run.scaler) ELSE model_file
    /\ UNCHANGED <<predictions, schedule, ml_model, ml_scaler, game_data, pc, pending, all_games, model_pred, features, csv, cycle, reader, generation, lockVars>>

\* ---------------------------------------------------------- schedule feed
Opponent(g) == IF HomeAbbrev(g) = TEAM THEN AwayAbbrev(g) ELSE HomeAbbrev(g)

FeedGame(g, state, homeScore, awayScore) ==
    [ id |-> g, gameState |-> state,
      homeTeam |-> [abbrev |-> HomeAbbrev(g), score |-> homeScore],
      awayTeam |-> [abbrev |-> AwayAbbrev(g), score |-> awayScore] ]

NextState(state) ==
    LET k == CHOOSE i \in DOMAIN GameStates : GameStates[i] = state
    IN  GameStates[k + 1]

\* The feed moves game g to its next gameState. The games are in date
\* order: a game starts after the games before it are official (OFF).
FeedAdvance(g) ==
    /\ schedule[g].gameState # "OFF"
    /\ \A h \in Games : h < g => schedule[h].gameState = "OFF"
    /\ schedule' = [schedule EXCEPT ![g].gameState = NextState(@)]
    /\ UNCHANGED <<predictions, ml_model, ml_scaler, game_data, pc, pending, all_games, model_pred, features, updateVars, lockVars>>

\* The feed reports one more goal for a side of game g: during the game, or
\* as a correction of a final score that is not yet official (FINAL, before
\* OFF).
FeedGoal(g, home) ==
    /\ schedule[g].gameState \in {"LIVE", "FINAL"}
    /\ schedule' = IF home
                   THEN [schedule EXCEPT ![g].homeTeam.score = @ + 1]
                   ELSE [schedule EXCEPT ![g].awayTeam.score = @ + 1]
    /\ <<schedule'[g].homeTeam.score, schedule'[g].awayTeam.score>> \in ScoreLines
    /\ UNCHANGED <<predictions, ml_model, ml_scaler, game_data, pc, pending, all_games, model_pred, features, updateVars, lockVars>>

\* --------------------------------------------------------------- handlers
\* /submit_prediction for the logged-in user u, with the hidden fields the
\* predict page wrote for game g and the guess of form f. Nothing is checked
\* before the INSERT; a missing model opinion is stored as "W" with 50.0.
SubmittedLedger(preds, u, g, f) ==
    LET is_home == IF HomeAbbrev(g) = TEAM THEN 1 ELSE 0
        mp == get_model_prediction(Opponent(g), is_home = 1)
        model_prediction == IF mp # NonePred THEN mp.prediction ELSE "W"
        model_win_prob == IF mp # NonePred THEN mp.win_probability ELSE 50
    IN  add_prediction(preds, u, g, GameDate(g), f.user_prediction, f.user_score_leafs, f.user_score_opponent, model_prediction, model_win_prob)

submit_prediction(u, g, f) ==
    /\ Len(predictions) < MaxRows
    /\ predictions' = SubmittedLedger(predictions, u, g, f)
    /\ UNCHANGED <<schedule, ml_model, ml_scaler, game_data, pc, pending, all_games, model_pred, features, updateVars, lockVars>>

\* The texts a scoreline field of the posted form can carry.
FormTexts == {"1", "-1", "x"}

\* The game ids the hidden field can carry: the games of the feed and one
\* the feed does not list.
FormGames == Games \cup {3}

\* int(text) returns for an optionally signed run of digits and raises
\* ValueError for any other text.
IsIntLiteral(text) == text \in {"0", "1", "-1"}

int(text) == CASE text = "0" -> 0 [] text = "1" -> 1 [] text = "-1" -> -1

\* /submit_prediction with the form as posted: the two int(...) calls of
\* lines 2386-2387 raise for a text that is no integer, which ends the
\* request before add_prediction; any integer goes on to the INSERT.
submit_prediction_form(u, g, user_prediction, score_leafs, score_opponent) ==
    /\ Len(predictions) < MaxRows
    /\ IF IsIntLiteral(score_leafs) /\ IsIntLiteral(score_opponent)
       THEN predictions' = SubmittedLedger(predictions, u, g, [user_prediction |-> user_prediction, user_score_leafs |-> int(score_leafs), user_score_opponent |-> int(score_opponent)])
       ELSE UNCHANGED predictions
    /\ UNCHANGED <<schedule, ml_model, ml_scaler, game_data, pc, pending, all_games, model_pred, features, updateVars, lockVars>>

\* leafs_score read from the home side whatever the venue.
HomeScore(game) == game.homeTeam.score

\* is_home = home.get("abbrev") == TEAM, and the two scores by side.
LeafsScore(game) ==
    IF game.homeTeam.abbrev = TEAM THEN game.homeTeam.score ELSE game.awayTeam.score

OppScore(game) ==
    IF game.homeTeam.abbrev = TEAM THEN game.awayTeam.score ELSE game.homeTeam.score

\* result = "W" if leafs_score > opp_score else "L"
ResultOf(game) == IF LeafsScore(game) > OppScore(game) THEN "W" ELSE "L"

\* The body of check_and_resolve_games' loop for one pending row.
ResolveFromGame(preds, pred, games) ==
    IF pred.game_id \notin DOMAIN games
    THEN preds
    ELSE LET game == games[pred.game_id]
         IN  IF game.gameState \notin {"OFF", "FINAL"}
             THEN preds
             ELSE resolve_prediction(preds, pred.id, ResultOf(game), LeafsScore(game), OppScore(game))

RECURSIVE ResolveAll(_, _, _)
\* for pred in pending: ...
ResolveAll(preds, pend, games) ==
    IF pend = <<>>
    THEN preds
    ELSE ResolveAll(ResolveFromGame(preds, Head(pend), games), Tail(pend), games)

\* One whole pass of check_and_resolve_games. Its reads of the table and of
\* the feed and its writes commute with submissions and feed changes of
\* other threads, so the pass is one step where no second pass runs.
check_and_resolve_games(fetch_ok) ==
    /\ predictions' =
         IF get_pending_predictions(predictions) = <<>> \/ ~fetch_ok
         THEN predictions
         ELSE ResolveAll(predictions, get_pending_predictions(predictions), schedule)
    /\ UNCHANGED <<schedule, ml_model, ml_scaler, game_data, pc, pending, all_games, model_pred, features, updateVars, lockVars>>

\* ------------------------------------- the resolution pass, step by step
\* The threads that run check_and_resolve_games: the scheduler's cycle and a
\* request for the index page.
Threads == {"AutoUpdateScheduler", "index"}

NoGames == [g \in {} |-> FeedGame(g, "FUT", 0, 0)]

\* pending = get_pending_predictions(); if not pending: return
pass_get_pending(t) ==
    /\ pc[t] = "idle"
    /\ pending' = [pending EXCEPT ![t] = get_pending_predictions(predictions)]
    /\ pc' = [pc EXCEPT ![t] = IF pending'[t] = <<>> THEN "idle" ELSE "fetch"]
    /\ UNCHANGED <<predictions, schedule, ml_model, ml_scaler, game_data, all_games, model_pred, features, updateVars, lockVars>>

\* The schedule is loaded once; a RequestException ends the pass.
pass_fetch(t, fetch_ok) ==
    /\ pc[t] = "fetch"
    /\ IF fetch_ok
       THEN /\ all_games' = [all_games EXCEPT ![t] = schedule]
            /\ pc' = [pc EXCEPT ![t] = "loop"]
            /\ UNCHANGED pending
       ELSE /\ pc' = [pc EXCEPT ![t] = "idle"]
            /\ pending' = [pending EXCEPT ![t] = <<>>]
            /\ UNCHANGED all_games
    /\ UNCHANGED <<predictions, schedule, ml_model, ml_scaler, game_data, model_pred, features, updateVars, lockVars>>

\* One iteration of the loop, or the return after the last one.
pass_resolve(t) ==
    /\ pc[t] = "loop"
    /\ IF pending[t] = <<>>
       THEN /\ pc' = [pc EXCEPT ![t] = "idle"]
            /\ all_games' = [all_games EXCEPT ![t] = NoGames]
            /\ UNCHANGED <<predictions, pending>>
       ELSE /\ predictions' = ResolveFromGame(predictions, Head(pending[t]), all_games[t])
            /\ pending' = [pending EXCEPT ![t] = Tail(@)]
            /\ UNCHANGED <<pc, all_games>>
    /\ UNCHANGED <<schedule, ml_model, ml_scaler, game_data, model_pred, features, updateVars, lockVars>>

\* ------------------------------------------------------- the update cycle
\* The threads that run auto_update_cycle: the scheduler's loop and a request
\* for /api/force-update.
CycleThreads == {"AutoUpdateScheduler", "force_update"}

\* predict_game has built no vector yet.
NoFeatures == [none |-> TRUE]

\* A thread outside update_game_data has no locals of it.
NoLocals == [existing_df |-> <<>>, new_games |-> <<>>]

Min(a, b) == IF a <= b THEN a ELSE b

\* A thread's record with some of its fields set.
AtPc(t, at) == [cycle EXCEPT ![t].pc = at]

\* run with no handler around auto_update_cycle: the exception ends the thread.
RaisedUncaught(t) == "terminated"

\* Where an exception that leaves auto_update_cycle takes the thread: run's
\* `except Exception` in the scheduler, the end of the request for
\* /api/force-update.
Raised(t) == IF t = "AutoUpdateScheduler" THEN "except" ELSE "error_500"

\* auto_update_cycle with retrain_model outside the `if has_new:`.
AfterUpdateAlways(has_new) == "retrain"

\* auto_update_cycle with check_and_resolve_games inside the `if has_new:`.
AfterUpdateNoPass(has_new) == IF has_new THEN "retrain" ELSE "idle"

\* `if has_new:` of auto_update_cycle: retrain_model, or on to
\* check_and_resolve_games.
AfterUpdate(has_new) == IF has_new THEN "retrain" ELSE "resolve"

\* retrain_model with the two assignments outside the try.
AfterTrainingAlways(error) == "set_model"

\* The try of retrain_model: the assignments of lines 790-791 follow
\* save_model, and an exception before them goes to the `except`.
AfterTraining(error) == IF error = "" THEN "set_model" ELSE "resolve"

\* time.sleep(CACHE_TTL) returns in the scheduler, or a request for
\* /api/force-update arrives: auto_update_cycle is called.
cycle_start(t) ==
    /\ cycle[t].pc = "idle"
    /\ cycle' = [cycle EXCEPT ![t].pc = "update", ![t].has_new = FALSE]
    /\ UNCHANGED <<predictions, schedule, ml_model, ml_scaler, game_data, pc, pending, all_games, model_pred, features, csv, model_file, train, reader, generation, lockVars>>

\* One entry of `finished` (every game of the feed is a regular-season game).
FinishedGame(game) ==
    [ game_id |-> game.id, date |-> GameDate(game.id),
      opponent |-> IF game.homeTeam.abbrev = TEAM THEN game.awayTeam.abbrev ELSE game.homeTeam.abbrev,
      is_home |-> IF game.homeTeam.abbrev = TEAM THEN 1 ELSE 0,
      leafs_score |-> LeafsScore(game), opponent_score |-> OppScore(game) ]

\* fetch_latest_results: the OFF and FINAL games of the feed in feed order,
\* or [] after a RequestException.
fetch_latest_results(games, fetch_ok) ==
    LET finished == SelectSeq(games, LAMBDA game : game.gameState \in {"OFF", "FINAL"})
    IN  IF fetch_ok THEN [k \in DOMAIN finished |-> FinishedGame(finished[k])] ELSE <<>>

\* The row update_game_data makes of a new game: the result from the two
\* scores, rest_days from the last date of the CSV as it was read.
NewCsvRow(game, existing_df) ==
    CsvRow(game.game_id, game.date,
           IF existing_df = <<>> THEN 2 ELSE Min(game.date - existing_df[Len(existing_df)].date, 7),
           [ opponent |-> game.opponent, is_home |-> game.is_home,
             leafs_score |-> game.leafs_score, opponent_score |-> game.opponent_score,
             result |-> IF game.leafs_score > game.opponent_score THEN "W" ELSE "L" ])

\* new_games = [g for g in all_results if g["game_id"] not in existing_ids]
NewGames(existing_df, all_results) ==
    SelectSeq(all_results, LAMBDA g : \A k \in DOMAIN existing_df : existing_df[k].game_id # g.game_id)

\* update_game_data, under update_lock from its first statement to its
\* return. read_ok is FALSE where pd.read_csv raises another error than
\* FileNotFoundError, which leaves the function and the cycle.
update_game_data(t, fetch_ok, read_ok) ==
    /\ cycle[t].pc = "update"
    /\ LET existing_df == IF csv.none THEN <<>> ELSE csv.rows
           new_games == NewGames(existing_df, fetch_latest_results(schedule, fetch_ok))
           updated_df == existing_df \o [k \in DOMAIN new_games |-> NewCsvRow(new_games[k], existing_df)]
       IN  IF ~read_ok
           THEN /\ cycle' = AtPc(t, Raised(t))
                /\ UNCHANGED <<csv, game_data>>
           ELSE IF new_games = <<>>
           THEN /\ cycle' = [cycle EXCEPT ![t].pc = AfterUpdate(FALSE), ![t].has_new = FALSE]
                /\ UNCHANGED <<csv, game_data>>
           ELSE /\ csv' = Frame(updated_df)
                /\ game_data' = Frame(updated_df)
                /\ cycle' = [cycle EXCEPT ![t].pc = AfterUpdate(TRUE), ![t].has_new = TRUE]
    /\ UNCHANGED <<predictions, schedule, ml_model, ml_scaler, pc, pending, all_games, model_pred, features, model_file, train, reader, generation, lockVars>>

\* ------------------------------------ update_game_data, statement by statement
\* threading.Lock with every acquire succeeding at once.
LockAlwaysFree(lock) == TRUE

\* `with update_lock:` enters where no thread holds the lock.
LockFree(lock) == lock = None

\* updated_df = new_df whatever the CSV held.
concat_new_only(existing_df, new_df) == new_df

\* pd.concat([existing_df, new_df], ignore_index=True), or new_df alone
\* where the CSV held no row.
concat(existing_df, new_df) == IF existing_df # <<>> THEN existing_df \o new_df ELSE new_df

\* new_rows: one row for each new game, in the order of new_games.
NewRows(new_games, existing_df) == [k \in DOMAIN new_games |-> NewCsvRow(new_games[k], existing_df)]

\* The statements of update_game_data a thread is at while it holds the lock.
LockedSection == {"read_csv", "fetch", "to_csv"}

\* `with update_lock:` (line 659)
update_acquire(t) ==
    /\ cycle[t].pc = "update"
    /\ LockFree(update_lock)
    /\ update_lock' = t
    /\ cycle' = AtPc(t, "read_csv")
    /\ UNCHANGED <<update_locals, predictions, schedule, ml_model, ml_scaler, game_data, pc, pending, all_games, model_pred, features, csv, model_file, train, reader, generation>>

\* pd.read_csv and existing_ids (lines 662-669): the table as the file holds
\* it now, an empty one for no file; another error leaves the `with`, which
\* releases the lock, and the cycle.
update_read_csv(t, read_ok) ==
    /\ cycle[t].pc = "read_csv"
    /\ IF read_ok
       THEN /\ update_locals' = [update_locals EXCEPT ![t].existing_df = IF csv.none THEN <<>> ELSE csv.rows]
            /\ cycle' = AtPc(t, "fetch")
            /\ UNCHANGED update_lock
       ELSE /\ update_locals' = [update_locals EXCEPT ![t] = NoLocals]
            /\ cycle' = AtPc(t, Raised(t))
            /\ update_lock' = None
    /\ UNCHANGED <<predictions, schedule, ml_model, ml_scaler, game_data, pc, pending, all_games, model_pred, features, csv, model_file, train, reader, generation>>

\* fetch_latest_results and new_games (lines 672-678): with no new game the
\* function returns False.
update_fetch(t, fetch_ok) ==
    /\ cycle[t].pc = "fetch"
    /\ \E new_games \in {NewGames(update_locals[t].existing_df, fetch_latest_results(schedule, fetch_ok))} :
          IF new_games = <<>>
          THEN /\ update_locals' = [update_locals EXCEPT ![t] = NoLocals]
               /\ cycle' = [cycle EXCEPT ![t].pc = AfterUpdate(FALSE), ![t].has_new = FALSE]
               /\ update_lock' = None
          ELSE /\ update_locals' = [update_locals EXCEPT ![t].new_games = new_games]
               /\ cycle' = AtPc(t, "to_csv")
               /\ UNCHANGED update_lock
    /\ UNCHANGED <<predictions, schedule, ml_model, ml_scaler, game_data, pc, pending, all_games, model_pred, features, csv, model_file, train, reader, generation>>

\* new_rows, updated_df, to_csv and game_data = updated_df (lines 680-774);
\* the function returns True.
update_to_csv(t) ==
    /\ cycle[t].pc = "to_csv"
    /\ \E updated_df \in {concat(update_locals[t].existing_df, NewRows(update_locals[t].new_games, update_locals[t].existing_df))} :
          /\ csv' = Frame(updated_df)
          /\ game_data' = Frame(updated_df)
    /\ update_locals' = [update_locals EXCEPT ![t] = NoLocals]
    /\ cycle' = [cycle EXCEPT ![t].pc = AfterUpdate(TRUE), ![t].has_new = TRUE]
    /\ update_lock' = None
    /\ UNCHANGED <<predictions, schedule, ml_model, ml_scaler, pc, pending, all_games, model_pred, features, model_file, train, reader, generation>>

\* The training path as retrain_model runs it.
Retrained(file, cv, fit_ok, save_ok) ==
    IF file.none
    THEN LoadedFeatures(file)
    ELSE CHOOSE run \in { TrainedAndSaved(df, cv, fit_ok, save_ok) : df \in {add_features(file.rows)} } : TRUE

\* retrain_model up to save_model (lines 785-788): an exception at any of
\* the four calls goes to `except Exception` and the function returns False.
retrain_model(t, cv, fit_ok, save_ok) ==
    /\ cycle[t].pc = "retrain"
    /\ \E run \in {Retrained(csv, cv, fit_ok, save_ok)} :
          LET trained == IF run.error = "" THEN generation.trained + 1 ELSE generation.trained
          IN  /\ train' = run
              /\ model_file' = IF run.saved THEN ModelFile(run.model, run.scaler) ELSE model_file
              /\ generation' = [generation EXCEPT !.trained = trained]
              /\ cycle' = [cycle EXCEPT ![t].pc = AfterTraining(run.error), ![t].model = run.model,
                                        ![t].scaler = run.scaler, ![t].generation = trained]
    /\ UNCHANGED <<predictions, schedule, ml_model, ml_scaler, game_data, pc, pending, all_games, model_pred, features, csv, reader, lockVars>>

\* ml_model = model (line 790)
retrain_set_model(t) ==
    /\ cycle[t].pc = "set_model"
    /\ ml_model' = cycle[t].model
    /\ generation' = [generation EXCEPT !.model = cycle[t].generation]
    /\ cycle' = AtPc(t, "set_scaler")
    /\ UNCHANGED <<predictions, schedule, ml_scaler, game_data, pc, pending, all_games, model_pred, features, csv, model_file, train, reader, lockVars>>

\* ml_scaler = scaler (line 791), and the return to auto_update_cycle.
retrain_set_scaler(t) ==
    /\ cycle[t].pc = "set_scaler"
    /\ ml_scaler' = cycle[t].scaler
    /\ generation' = [generation EXCEPT !.scaler = cycle[t].generation]
    /\ cycle' = AtPc(t, "resolve")
    /\ UNCHANGED <<predictions, schedule, ml_model, game_data, pc, pending, all_games, model_pred, features, csv, model_file, train, reader, lockVars>>

\* The rest of auto_update_cycle: check_and_resolve_games and the cache
\* refresh. db_ok is FALSE where a database call of the pass raises, which
\* leaves the cycle.
cycle_resolve(t, fetch_ok, db_ok) ==
    /\ cycle[t].pc = "resolve"
    /\ IF db_ok
       THEN /\ predictions' =
                 IF get_pending_predictions(predictions) = <<>> \/ ~fetch_ok
                 THEN predictions
                 ELSE ResolveAll(predictions, get_pending_predictions(predictions), schedule)
            /\ cycle' = AtPc(t, "idle")
       ELSE /\ cycle' = AtPc(t, Raised(t))
            /\ UNCHANGED predictions
    /\ UNCHANGED <<schedule, ml_model, ml_scaler, game_data, pc, pending, all_games, model_pred, features, csv, model_file, train, reader, generation, lockVars>>

\* The exception is printed by run, which goes on to time.sleep; the request
\* for /api/force-update ends with an error response.
cycle_raised(t) ==
    /\ cycle[t].pc \in {"except", "error_500"}
    /\ cycle' = [cycle EXCEPT ![t].pc = "idle", ![t].errors = Min(@ + 1, MaxErrors)]
    /\ UNCHANGED <<predictions, schedule, ml_model, ml_scaler, game_data, pc, pending, all_games, model_pred, features, csv, model_file, train, reader, generation, lockVars>>

\* get_model_prediction in a request, line 907: the two None checks.
reader_check ==
    /\ reader.pc = "idle"
    /\ reader' = [reader EXCEPT !.pc = IF ml_model = None \/ game_data.none THEN "idle" ELSE "read_model"]
    /\ model_pred' = IF ml_model = None \/ game_data.none THEN NonePred ELSE model_pred
    /\ UNCHANGED <<predictions, schedule, ml_model, ml_scaler, game_data, pc, pending, all_games, features, csv, model_file, train, cycle, generation, lockVars>>

\* model=ml_model (line 913)
reader_read_model ==
    /\ reader.pc = "read_model"
    /\ reader' = [reader EXCEPT !.pc = "read_scaler", !.model = ml_model, !.generation.model = generation.model]
    /\ UNCHANGED <<predictions, schedule, ml_model, ml_scaler, game_data, pc, pending, all_games, model_pred, features, csv, model_file, train, cycle, generation, lockVars>>

\* scaler=ml_scaler (line 917) and the call of predict_game.
reader_read_scaler(g) ==
    /\ reader.pc = "read_scaler"
    /\ reader' = [reader EXCEPT !.pc = "idle", !.scaler = ml_scaler, !.generation.scaler = generation.scaler]
    /\ model_pred' = predict_game(reader.model, Opponent(g), HomeAbbrev(g) = TEAM, game_data.rows, ml_scaler)
    /\ UNCHANGED <<predictions, schedule, ml_model, ml_scaler, game_data, pc, pending, all_games, features, csv, model_file, train, cycle, generation, lockVars>>

\* --------------------------------------------------------- specifications
InitFeed == [g \in Games |-> FeedGame(g, "FUT", 0, 0)]

InitThreads ==
    /\ pc = [t \in Threads |-> "idle"]
    /\ pending = [t \in Threads |-> <<>>]
    /\ all_games = [t \in Threads |-> NoGames]

\* No thread is inside the update cycle, the training path or
\* get_model_prediction; load_ml_model has read the two files.
InitUpdate ==
    /\ csv = game_data
    /\ model_file = (IF ml_model = None THEN NoModelFile ELSE ModelFile(ml_model, ml_scaler))
    /\ train = NoTrain
    /\ features = NoFeatures
    /\ cycle = [t \in CycleThreads |-> [pc |-> "idle", has_new |-> FALSE, errors |-> 0, model |-> None, scaler |-> None, generation |-> 0]]
    /\ reader = [pc |-> "idle", model |-> None, scaler |-> None, generation |-> [model |-> 0, scaler |-> 0]]
    /\ generation = [model |-> 0, scaler |-> 0, trained |-> 0]
    /\ update_lock = None
    /\ update_locals = [t \in CycleThreads |-> NoLocals]

\* A game table of five losses.
RecentHistory == [i \in 1..5 |-> CHOOSE r \in HistoryRows : r.result = "L" /\ r.opponent = "MTL"]

\* After _init_app: an empty ledger, and load_ml_model has either found no
\* model file or loaded the model and the game table.
Init ==
    /\ predictions = <<>>
    /\ schedule = InitFeed
    /\ \/ ml_model = None /\ game_data = NoFrame
       \/ ml_model = "Gradient Boosting" /\ game_data = Frame(RecentHistory)
    /\ ml_scaler = None
    /\ model_pred = NonePred
    /\ InitThreads
    /\ InitUpdate

Next ==
    \/ \E u \in Users, g \in Games, f \in Forms : submit_prediction(u, g, f)
    \/ \E ok \in BOOLEAN : check_and_resolve_games(ok)
    \/ \E g \in Games : FeedAdvance(g)
    \/ \E g \in Games, home \in BOOLEAN : FeedGoal(g, home)

Spec == Init /\ [][Next]_vars

\* ------------------------------------------------ scoring specification
\* resolve_prediction over every stored guess and every outcome: one row is
\* inserted with any guess, scoreline and model category, and is resolved
\* with any result and scores.
Scores == 0..MaxScore

score_add_prediction(user_prediction, user_score_leafs, user_score_opponent, model_prediction) ==
    /\ predictions = <<>>
    /\ predictions' = add_prediction(predictions, "ann", 1, GameDate(1), user_prediction, user_score_leafs, user_score_opponent, model_prediction, 50)
    /\ UNCHANGED <<schedule, ml_model, ml_scaler, game_data, pc, pending, all_games, model_pred, features, updateVars, lockVars>>

score_resolve_prediction(prediction_id, actual_result, actual_score_leafs, actual_score_opponent) ==
    /\ predictions # <<>>
    /\ predictions' = resolve_prediction(predictions, prediction_id, actual_result, actual_score_leafs, actual_score_opponent)
    /\ UNCHANGED <<schedule, ml_model, ml_scaler, game_data, pc, pending, all_games, model_pred, features, updateVars, lockVars>>

InitScore ==
    /\ predictions = <<>>
    /\ schedule = InitFeed
    /\ ml_model = None
    /\ ml_scaler = None
    /\ game_data = NoFrame
    /\ model_pred = NonePred
    /\ InitThreads
    /\ InitUpdate

NextScore ==
    \/ \E up \in {"W", "L"}, sl \in Scores, so \in Scores, mp \in {"W", "L"} :
          score_add_prediction(up, sl, so, mp)
    \/ \E id \in {1, 2}, r \in {"W", "L"}, sl \in Scores, so \in Scores :
          score_resolve_prediction(id, r, sl, so)

SpecScore == InitScore /\ [][NextScore]_vars

\* --------------------------------------------- concurrent resolution passes
\* Two users have submitted before the first game; the scheduler's cycle and
\* an index request then run check_and_resolve_games side by side.
InitialLedgers ==
    { SubmittedLedger(SubmittedLedger(<<>>, "ann", 1, f1), "bob", g, f2) :
        f1 \in Forms, f2 \in Forms, g \in Games }

InitResolve ==
    /\ ml_model = None
    /\ ml_scaler = None
    /\ game_data = NoFrame
    /\ model_pred = NonePred
    /\ schedule = InitFeed
    /\ predictions \in InitialLedgers
    /\ InitThreads
    /\ InitUpdate

NextResolve ==
    \/ \E t \in Threads : pass_get_pending(t)
    \/ \E t \in Threads, ok \in BOOLEAN : pass_fetch(t, ok)
    \/ \E t \in Threads : pass_resolve(t)
    \/ \E g \in Games : FeedAdvance(g)
    \/ \E g \in Games, home \in BOOLEAN : FeedGoal(g, home)

SpecResolve == InitResolve /\ [][NextResolve]_vars

\* ------------------------------------------------- predictor specification
\* load_ml_model has read whatever model file and game table there are; the
\* predict page then asks for the model's opinion on an upcoming game.
predict(game_id) ==
    /\ ~prediction_exists(predictions, game_id, "ann")
    /\ schedule[game_id].gameState \in {"FUT", "PRE"}
    /\ model_pred' = get_model_prediction(Opponent(game_id), HomeAbbrev(game_id) = TEAM)
    /\ features' = IF ml_model = None \/ game_data.none
                   THEN features
                   ELSE predict_game_features(Opponent(game_id), HomeAbbrev(game_id) = TEAM, game_data.rows)
    /\ UNCHANGED <<predictions, schedule, ml_model, ml_scaler, game_data, pc, pending, all_games, updateVars, lockVars>>

InitPredict ==
    /\ predictions = <<>>
    /\ schedule = InitFeed
    /\ ml_model \in Models \cup {None}
    /\ ml_scaler = None
    /\ game_data \in {NoFrame} \cup { Frame(h) : h \in Histories(MaxHist) }
    /\ model_pred = NonePred
    /\ InitThreads
    /\ InitUpdate

NextPredict == \E g \in Games : predict(g)

SpecPredict == InitPredict /\ [][NextPredict]_vars

\* ------------------------------------------------- training specification
\* python3 model.py over every game table of at most MaxHist games, and over
\* no file.
InitTrain ==
    /\ predictions = <<>>
    /\ schedule = InitFeed
    /\ ml_model = None
    /\ ml_scaler = None
    /\ game_data \in {NoFrame} \cup { Frame(SeasonTable(h)) : h \in Histories(MaxHist) }
    /\ model_pred = NonePred
    /\ InitThreads
    /\ InitUpdate

NextTrain ==
    \/ main_add_features
    \/ \E cv \in CvMeans, fit_ok \in BOOLEAN, save_ok \in BOOLEAN : main_train_all_models(cv, fit_ok, save_ok)

SpecTrain == InitTrain /\ [][NextTrain]_vars

\* --------------------------------------------------- season specification
\* The predict page late in a season: the game table ends with a run of one
\* result.
Run(r, n) == [i \in 1..n |-> r]

SeasonHistories ==
    { h \o Run(r, n) : h \in Histories(MaxPrefix), r \in HistoryRows, n \in 0..MaxRun }

InitSeason ==
    /\ predictions = <<>>
    /\ schedule = InitFeed
    /\ ml_model \in Models
    /\ ml_scaler = None
    /\ game_data \in { Frame(SeasonTable(h)) : h \in SeasonHistories }
    /\ model_pred = NonePred
    /\ InitThreads
    /\ InitUpdate

SpecSeason == InitSeason /\ [][NextPredict]_vars

\* ---------------------------------------------------- cycle specification
\* The server after _init_app: the scheduler's loop and requests that ask for
\* the model's opinion, while the feed takes the two games from FUT to OFF.
InitCycle ==
    /\ predictions = <<>>
    /\ schedule = InitFeed
    /\ \/ ml_model = None /\ game_data = NoFrame
       \/ ml_model = "Gradient Boosting" /\ game_data = Frame(SeasonTable(RecentHistory))
    /\ ml_scaler = None
    /\ model_pred = NonePred
    /\ InitThreads
    /\ InitUpdate

\* The accuracies of the retrainings: Logistic Regression is ahead, and either
\* tree family is the better one or both are at zero.
CycleCvMeans ==
    { cv \in CvMeans : cv["Logistic Regression"] = 2
                        /\ <<cv["Gradient Boosting"], cv["Random Forest"]>> \in {<<1, 0>>, <<0, 1>>, <<0, 0>>} }

\* The steps of thread t in auto_update_cycle.
CycleStep(t) ==
    \/ cycle_start(t)
    \/ \E fetch_ok \in BOOLEAN, read_ok \in BOOLEAN : update_game_data(t, fetch_ok, read_ok)
    \/ \E cv \in CycleCvMeans, fit_ok \in BOOLEAN, save_ok \in BOOLEAN : retrain_model(t, cv, fit_ok, save_ok)
    \/ retrain_set_model(t)
    \/ retrain_set_scaler(t)
    \/ \E fetch_ok \in BOOLEAN, db_ok \in BOOLEAN : cycle_resolve(t, fetch_ok, db_ok)
    \/ cycle_raised(t)

NextCycle ==
    \/ CycleStep("AutoUpdateScheduler")
    \/ reader_check
    \/ reader_read_model
    \/ \E g \in Games : reader_read_scaler(g)
    \/ \E g \in Games : FeedAdvance(g)

SpecCycle == InitCycle /\ [][NextCycle]_vars

\* The scheduler is a thread of its own whose calls return: the requests
\* have a timeout and update_lock is released at the end of the `with`.
SpecCycleFair == SpecCycle /\ WF_vars(CycleStep("AutoUpdateScheduler"))

\* ----------------------------------------------- submission specification
\* A logged-in user posts forms as the browser sends them, for the games of
\* the feed at any time of their life and for a game the feed does not have,
\* while resolution passes run.
NextSubmit ==
    \/ \E g \in FormGames, sl \in FormTexts, so \in FormTexts : submit_prediction_form("ann", g, "W", sl, so)
    \/ \E ok \in BOOLEAN : check_and_resolve_games(ok)
    \/ \E g \in Games : FeedAdvance(g)
    \/ \E g \in Games, home \in BOOLEAN : FeedGoal(g, home)

SpecSubmit == Init /\ [][NextSubmit]_vars

\* --------------------------------------------------- passes specification
\* What the feed can report for the two games at one moment: a game that has
\* not begun stands at 0:0.
FeedSnapshots ==
    { feed \in [Games -> { FeedGame(g, GameStates[k], sl[1], sl[2]) : g \in Games, k \in DOMAIN GameStates, sl \in ScoreLines }] :
        \A g \in Games :
            /\ feed[g].id = g
            /\ feed[g].gameState = "FUT" => (feed[g].homeTeam.score = 0 /\ feed[g].awayTeam.score = 0) }

\* Two users have submitted; the scheduler's cycle and an index request run
\* check_and_resolve_games side by side while the feed stays as it is.
InitPasses ==
    /\ ml_model = None
    /\ ml_scaler = None
    /\ game_data = NoFrame
    /\ model_pred = NonePred
    /\ schedule \in FeedSnapshots
    /\ predictions \in InitialLedgers
    /\ InitThreads
    /\ InitUpdate

NextPasses ==
    \/ \E t \in Threads : pass_get_pending(t)
    \/ \E t \in Threads, ok \in BOOLEAN : pass_fetch(t, ok)
    \/ \E t \in Threads : pass_resolve(t)

SpecPasses == InitPasses /\ [][NextPasses]_vars

\* ------------------------------------------------ resolution specification
\* Two users have submitted before the first game, one for each game, with
\* the model and the game table loaded; the scheduler runs its cycles while the feed takes the
\* games to OFF.
InitLive ==
    /\ ml_model = "Gradient Boosting"
    /\ ml_scaler = None
    /\ game_data = Frame(SeasonTable(RecentHistory))
    /\ model_pred = NonePred
    /\ schedule = InitFeed
    /\ predictions \in { SubmittedLedger(SubmittedLedger(<<>>, "ann", 1, f), "bob", 2, f) : f \in Forms }
    /\ InitThreads
    /\ InitUpdate

NextLive ==
    \/ CycleStep("AutoUpdateScheduler")
    \/ \E g \in Games : FeedAdvance(g)

SpecLive == InitLive /\ [][NextLive]_vars

\* The scheduler thread keeps running (its sleep ends, its calls return), and
\* the failures of a cycle are transient: of the calls of update_game_data
\* infinitely many return, and of the passes infinitely many reach the feed
\* and the database.
SpecLiveFair ==
    /\ SpecLive
    /\ WF_vars(CycleStep("AutoUpdateScheduler"))
    /\ SF_vars(\E fetch_ok \in BOOLEAN : update_game_data("AutoUpdateScheduler", fetch_ok, TRUE))
    /\ SF_vars(cycle_resolve("AutoUpdateScheduler", TRUE, TRUE))

\* ---------------------------------------------------- store specification
\* The feed moves game g to its next gameState whatever the state of the
\* other games: a postponed game is played after games of later dates.
FeedAdvanceAnyDate(g) ==
    /\ schedule[g].gameState # "OFF"
    /\ schedule' = [schedule EXCEPT ![g].gameState = NextState(@)]
    /\ UNCHANGED <<predictions, ml_model, ml_scaler, game_data, pc, pending, all_games, model_pred, features, updateVars, lockVars>>

\* The steps of thread t in auto_update_cycle with update_game_data taken
\* statement by statement.
StoreStep(t) ==
    \/ cycle_start(t)
    \/ update_acquire(t)
    \/ \E read_ok \in BOOLEAN : update_read_csv(t, read_ok)
    \/ \E fetch_ok \in BOOLEAN : update_fetch(t, fetch_ok)
    \/ update_to_csv(t)
    \/ \E cv \in CycleCvMeans : retrain_model(t, cv, TRUE, TRUE)
    \/ retrain_set_model(t)
    \/ retrain_set_scaler(t)
    \/ \E fetch_ok \in BOOLEAN : cycle_resolve(t, fetch_ok, TRUE)
    \/ cycle_raised(t)

\* The scheduler's loop and requests for /api/force-update side by side,
\* while the feed finishes the two games in either order.
NextStore ==
    \/ \E t \in CycleThreads : StoreStep(t)
    \/ \E g \in Games : FeedAdvanceAnyDate(g)

SpecStore == InitCycle /\ [][NextStore]_vars

\* ------------------------------------------------------------------ claims
IsResolved(i) == predictions[i].is_resolved = 1

\* C1: the ledger holds at most one Prediction per (username, game_id): a
\* second submission for a pair that has a row inserts no second row.
C1_OnePredictionPerUserGame ==
    \A i \in DOMAIN predictions, j \in DOMAIN predictions :
        (predictions[i].username = predictions[j].username
            /\ predictions[i].game_id = predictions[j].game_id) => i = j

\* C2: a resolved row's user_points is 0 when the guess differs from the
\* actual result, 1 when the guess is right and a score differs, 3 when the
\* guess and both scores match; it is never another value.
C2_UserPointsRule ==
    \A i \in DOMAIN predictions :
        IsResolved(i) =>
            LET r == predictions[i]
                guessRight == r.user_prediction = r.actual_result
                scoresRight == r.user_score_leafs = r.actual_score_leafs
                               /\ r.user_score_opponent = r.actual_score_opponent
            IN  /\ r.user_points \in {0, 1, 3}
                /\ ~guessRight => r.user_points = 0
                /\ (guessRight /\ ~scoresRight) => r.user_points = 1
                /\ (guessRight /\ scoresRight) => r.user_points = 3

\* C2 witness: a right guess whose Leafs score matches and whose opponent
\* score does not has been resolved to 1 point.
C2_Witness ==
    \E i \in DOMAIN predictions :
        /\ IsResolved(i)
        /\ predictions[i].user_prediction = predictions[i].actual_result
        /\ predictions[i].user_score_leafs = predictions[i].actual_score_leafs
        /\ predictions[i].user_score_opponent # predictions[i].actual_score_opponent
        /\ predictions[i].user_points = 1

\* C3: a resolved row's model_points is 1 when the stored model category
\* equals the actual result and 0 otherwise, whatever the user guessed and
\* whatever the scores are; it is never 3.
C3_ModelPointsRule ==
    \A i \in DOMAIN predictions :
        IsResolved(i) =>
            predictions[i].model_points =
                (IF predictions[i].model_prediction = predictions[i].actual_result THEN 1 ELSE 0)

\* C3 witness: the user has the exact score (3 points), guessed otherwise
\* than the model, and the model is scored 0.
C3_Witness ==
    \E i \in DOMAIN predictions :
        /\ IsResolved(i)
        /\ predictions[i].user_points = 3
        /\ predictions[i].model_prediction # predictions[i].user_prediction
        /\ predictions[i].model_points = 0

\* The outcome thread t's pass is about to write for the row at the head of
\* its pending list is the outcome that row already carries.
SameOutcomeAgain(t) ==
    /\ pc[t] = "loop"
    /\ pending[t] # <<>>
    /\ LET id == Head(pending[t]).id
           game == all_games[t][predictions[id].game_id]
       IN  /\ IsResolved(id)
           /\ game.gameState \in {"OFF", "FINAL"}
           /\ predictions[id].actual_result = ResultOf(game)
           /\ predictions[id].actual_score_leafs = LeafsScore(game)
           /\ predictions[id].actual_score_opponent = OppScore(game)

\* C4: resolving an already resolved row again with the same outcome leaves
\* its points and its resolved flag as they are, and get_leaderboard returns
\* what it returned before.
C4_ResolveIdempotent ==
    [][\A t \in Threads :
          (SameOutcomeAgain(t) /\ pending'[t] = Tail(pending[t])) =>
              LET id == Head(pending[t]).id
              IN  /\ predictions'[id].user_points = predictions[id].user_points
                  /\ predictions'[id].model_points = predictions[id].model_points
                  /\ predictions'[id].is_resolved = 1
                  /\ get_leaderboard(predictions') = get_leaderboard(predictions)]_vars

\* C4 witness: a row that earned points has been resolved by one pass and the
\* other pass, which read it as pending, is about to resolve it again with
\* the same outcome.
C4_Witness ==
    \E t \in Threads :
        /\ SameOutcomeAgain(t)
        /\ predictions[Head(pending[t]).id].user_points > 0

\* C5: once a row has is_resolved = 1, no step changes any of its columns.
C5_ResolvedIsTerminal ==
    [][\A i \in DOMAIN predictions :
          IsResolved(i) => predictions'[i] = predictions[i]]_vars

RECURSIVE SumUserPointsAt(_)
\* The sum of user_points over the rows with the ids in S.
SumUserPointsAt(S) ==
    IF S = {}
    THEN 0
    ELSE LET i == CHOOSE x \in S : TRUE
         IN  predictions[i].user_points + SumUserPointsAt(S \ {i})

RECURSIVE SumModelPointsAt(_)
\* The sum of model_points over the rows with the ids in S.
SumModelPointsAt(S) ==
    IF S = {}
    THEN 0
    ELSE LET i == CHOOSE x \in S : TRUE
         IN  predictions[i].model_points + SumModelPointsAt(S \ {i})

ResolvedIds == {i \in DOMAIN predictions : IsResolved(i)}

ResolvedIdsOf(u) == {i \in ResolvedIds : predictions[i].username = u}

\* C6: each user's leaderboard total is the sum of user_points over that
\* user's resolved rows, the model row's total is the sum of model_points
\* over all resolved rows, and pending rows add to no total and no game
\* count (a user with pending rows only has no leaderboard row).
C6_TotalsAreResolvedSums ==
    LET lb == get_leaderboard(predictions)
        RowsOf(u) == {k \in DOMAIN lb.users : lb.users[k].username = u}
    IN  /\ \A u \in Users :
              /\ Cardinality(RowsOf(u)) = (IF ResolvedIdsOf(u) = {} THEN 0 ELSE 1)
              /\ \A k \in RowsOf(u) :
                    /\ lb.users[k].total_points = SumUserPointsAt(ResolvedIdsOf(u))
                    /\ lb.users[k].total_games = Cardinality(ResolvedIdsOf(u))
        /\ lb.model.total_points = SumModelPointsAt(ResolvedIds)
        /\ lb.model.total_games = Cardinality(ResolvedIds)

\* C6 witness: a user has a resolved row with points and a pending row, and
\* the other user has a pending row only.
C6_Witness ==
    \E i \in DOMAIN predictions, j \in DOMAIN predictions :
        /\ IsResolved(i) /\ predictions[i].user_points > 0
        /\ ~IsResolved(j)
        /\ ResolvedIdsOf(predictions[j].username) = {}

\* No row whose game the feed shows as finished is pending.
NoFinishedGamePending ==
    \A i \in DOMAIN predictions :
        schedule[predictions[i].game_id].gameState \in {"OFF", "FINAL"} => IsResolved(i)

\* C7: after a resolution pass with a successful schedule fetch, no row of
\* any user for a game in state OFF or FINAL is pending.
C7_PassResolvesAllFinished ==
    [][check_and_resolve_games(TRUE) => NoFinishedGamePending']_vars

\* C7 witness: the rows of two users for the same finished game are both
\* resolved.
C7_Witness ==
    \E i \in DOMAIN predictions, j \in DOMAIN predictions :
        /\ predictions[i].username # predictions[j].username
        /\ predictions[i].game_id = predictions[j].game_id
        /\ IsResolved(i) /\ IsResolved(j)
        /\ NoFinishedGamePending

\* The smallest min_periods of the training windows (goals for and against):
\* with fewer rows in the game table no trailing window is defined.
MinPeriods == 3

\* C8: with no model loaded, no game table, or a game table shorter than the
\* trailing-window minimum, get_model_prediction returns None.
C8_NoPredictionWithoutHistory ==
    (ml_model = None \/ game_data.none \/ Len(game_data.rows) < MinPeriods)
        => model_pred = NonePred

\* C9: a submission made while the model prediction is unavailable stores no
\* row with a model category of W or L.
C9_NoFabricatedModelOpinion ==
    [][(Len(predictions') = Len(predictions) + 1
          /\ get_model_prediction(Opponent(predictions'[Len(predictions')].game_id),
                                  HomeAbbrev(predictions'[Len(predictions')].game_id) = TEAM) = NonePred)
        => predictions'[Len(predictions')].model_prediction \notin {"W", "L"}]_vars

\* C10: get_leaderboard's user rows are in non-increasing total_points order
\* and carry the ranks 1..n in that order.
C10_RankedByPointsDesc ==
    LET users == get_leaderboard(predictions).users
    IN  /\ \A k \in DOMAIN users : users[k].rank = k
        /\ \A k \in DOMAIN users :
              k + 1 \in DOMAIN users => users[k].total_points >= users[k + 1].total_points

\* C10 witness: the second user of the grouping order has more points than
\* the first and is ranked first.
C10_Witness ==
    LET users == get_leaderboard(predictions).users
    IN  /\ Len(users) = 2
        /\ users[1].username = UserOrder[2]
        /\ users[1].total_points > users[2].total_points

\* The game table of the training run in date order.
TrainedTable == sort_values(csv.rows)

\* The columns of an engineered row that are computed from results.
FeatureVector(row) ==
    <<row.rolling_win_pct, row.rolling_goals_for, row.rolling_goals_against,
      row.goal_diff_rolling, row.streak, row.h2h_win_pct>>

\* The table df with game j replaced by a game of outcome r.
ReplaceGame(df, j, r) == [df EXCEPT ![j] = CsvRow(@.game_id, @.date, @.rest_days, r)]

\* The tables that agree with df on every game before i: game i has another
\* score and result against the same opponent at the same venue, or a later
\* game is another game.
AgreeBefore(df, i) ==
    { ReplaceGame(df, j, r) : j \in (i + 1)..Len(df), r \in HistoryRows } \cup
    { ReplaceGame(df, i, r) : r \in {x \in HistoryRows : x.opponent = df[i].opponent /\ x.is_home = df[i].is_home} }

\* C11: the feature vector add_features computes for game i is the same for
\* every table that agrees on the games before i, whatever game i's own score
\* and result and whatever the later games are.
C11_NoLeakage ==
    train.step = "features" =>
        \A k \in DOMAIN train.df :
            \A d \in AgreeBefore(TrainedTable, train.df[k].index) :
                FeatureVector(FeatureRow(d, train.df[k].index)) = FeatureVector(train.df[k])

\* The games before game i of df against game i's opponent.
EarlierMeetings(df, i) == {j \in 1..(i - 1) : df[j].opponent = df[i].opponent}

\* The fractions a and b, each a pair <<numerator, denominator>>, are equal.
SameFraction(a, b) == a[1] * b[2] = b[1] * a[2]

\* pct is one half where game i has fewer than two earlier meetings, and the
\* wins over the count of the earlier meetings otherwise.
HeadToHeadOf(df, i, pct) ==
    LET meetings == EarlierMeetings(df, i)
        wins == Cardinality({j \in meetings : df[j].result = "W"})
    IN  IF Cardinality(meetings) < 2
        THEN pct = <<1, 2>>
        ELSE SameFraction(pct, <<wins, Cardinality(meetings)>>)

\* C12: the head-to-head percentage of game i is exactly 0.5 with fewer than
\* two strictly earlier meetings with the same opponent, and otherwise the
\* wins divided by the count over the strictly earlier meetings with that
\* opponent only, game i itself never among them.
C12_HeadToHeadStrictlyEarlier ==
    train.step = "features" =>
        /\ \A i \in DOMAIN TrainedTable :
              HeadToHeadOf(TrainedTable, i, FeatureRow(TrainedTable, i).h2h_win_pct)
        /\ \A k \in DOMAIN train.df :
              HeadToHeadOf(TrainedTable, train.df[k].index, train.df[k].h2h_win_pct)

\* C12 witness: the training table has a game with three earlier meetings of
\* mixed results and a game in its second meeting, with games against the
\* other opponent in between.
C12_Witness ==
    /\ train.step = "features"
    /\ \E k \in DOMAIN train.df, l \in DOMAIN train.df :
          LET i == train.df[k].index
              wins == Cardinality({j \in EarlierMeetings(TrainedTable, i) : TrainedTable[j].result = "W"})
          IN  /\ Cardinality(EarlierMeetings(TrainedTable, i)) = 3
              /\ wins = 1
              /\ train.df[k].h2h_win_pct = <<1, 3>>
              /\ Cardinality(EarlierMeetings(TrainedTable, train.df[l].index)) = 1
              /\ train.df[l].h2h_win_pct = <<1, 2>>

\* C13: for every triple of cross-validated accuracies train_all_models
\* returns the family with the highest accuracy among Gradient Boosting and
\* Random Forest, never Logistic Regression, and no scaler.
C13_SelectsBestTreeFamily ==
    (train.step = "done" /\ train.fitted = Families) =>
        LET cv == train.results
        IN  /\ train.error \in {"", "OSError"}
            /\ train.name \in {"Gradient Boosting", "Random Forest"}
            /\ train.model = train.name
            /\ cv[train.name] = Max(cv["Gradient Boosting"], cv["Random Forest"])
            /\ train.scaler = None

\* C14: the streak predict_game puts in the live vector for a game table H is
\* the streak add_features assigns to a game appended after H, for a closing
\* run of any length.
C14_StreakSameInBothPaths ==
    features # NoFeatures =>
        \A r \in HistoryRows :
            LET df == sort_values(game_data.rows \o <<CsvRow(1, 1, 1, r)>>)
            IN  features.streak = FeatureRow(df, Len(df)).streak

\* The rows a window of the given length covers at row i, row i among them,
\* as rolling counts them.
WindowSamples(i, window) == Cardinality({j \in 1..i : j > i - window})

\* C15: every row of the table add_features returns has its trailing windows
\* defined (win percentage and goal differential over at least 5 samples,
\* goals for and against over at least 3), and every row whose window lacks
\* its minimum sample count is absent from the table.
C15_WarmUpExcluded ==
    train.step = "features" =>
        /\ \A k \in DOMAIN train.df :
              LET row == train.df[k]
              IN  /\ ~row.rolling_win_pct.nan /\ row.rolling_win_pct.count >= 5
                  /\ ~row.goal_diff_rolling.nan /\ row.goal_diff_rolling.count >= 5
                  /\ ~row.rolling_goals_for.nan /\ row.rolling_goals_for.count >= 3
                  /\ ~row.rolling_goals_against.nan /\ row.rolling_goals_against.count >= 3
                  /\ row.rolling_win_pct.count = WindowSamples(row.index, 10)
                  /\ row.rolling_goals_for.count = WindowSamples(row.index, 5)
        /\ \A i \in DOMAIN TrainedTable :
              (WindowSamples(i, 10) < 5 \/ WindowSamples(i, 5) < 3) =>
                  \A k \in DOMAIN train.df : train.df[k].index # i

\* C15 witness: of a table of six games the first four are dropped and the
\* last two are kept.
C15_Witness ==
    /\ train.step = "features"
    /\ Len(TrainedTable) = 6
    /\ Len(train.df) = 2
    /\ train.df[1].index = 5

\* C16: with no game data file, or a file with no games, the training path
\* ends with an error of its own (FileNotFoundError from load_data,
\* ValueError from the split) before any estimator is fitted, and no model
\* is returned or saved.
C16_NoTrainingOnNoData ==
    (train.step = "done" /\ (csv.none \/ csv.rows = <<>>)) =>
        /\ train.error = (IF csv.none THEN "FileNotFoundError" ELSE "ValueError")
        /\ train.fitted = <<>>
        /\ train.model = None
        /\ ~train.saved
        /\ model_file = NoModelFile

\* C16 witness: the file is there with no games, and the run has ended with
\* the split's error.
C16_Witness ==
    /\ train.step = "done"
    /\ ~csv.none /\ csv.rows = <<>>
    /\ train.error = "ValueError"

\* Thread t takes the step.
Acting(t) == cycle'[t] # cycle[t]

Scheduler == "AutoUpdateScheduler"

\* C17: a cycle that raises does not end the scheduler thread: from run's
\* except branch the thread goes on to the next cycle, and a cycle is started
\* again and again.
C17_SchedulerSurvives ==
    /\ [](cycle[Scheduler].pc # "terminated")
    /\ (cycle[Scheduler].pc = "except") ~> (cycle[Scheduler].pc = "update")
    /\ []<>(cycle[Scheduler].pc = "update")

\* C17 witness: the scheduler has printed the error of a failed cycle and is
\* at the start of a cycle again.
C17_Witness ==
    /\ cycle[Scheduler].pc = "update"
    /\ cycle[Scheduler].errors > 0

\* C18: in a cycle retrain_model is called exactly when update_game_data has
\* appended a new game in that cycle, after the append and before the cycle
\* ends; a cycle without new games does not train and does not replace the
\* model.
C18_RetrainIffNewGames ==
    [][\A t \in CycleThreads :
          Acting(t) =>
              /\ (cycle[t].pc = "update" /\ cycle'[t].pc \notin {"except", "error_500"}) =>
                    /\ cycle'[t].has_new = (csv' # csv)
                    /\ cycle'[t].pc = (IF csv' # csv THEN "retrain" ELSE "resolve")
                    /\ csv' # csv => (~csv'.none /\ Len(csv'.rows) > (IF csv.none THEN 0 ELSE Len(csv.rows)))
              /\ cycle[t].pc = "retrain" =>
                    /\ cycle[t].has_new
                    /\ train'.step = "done"
                    /\ cycle'[t].pc \in {"set_model", "resolve"}
              /\ cycle'[t].pc = "idle" => cycle[t].pc \in {"resolve", "except", "error_500"}
              /\ ~cycle[t].has_new =>
                    /\ train' = train /\ model_file' = model_file
                    /\ ml_model' = ml_model /\ ml_scaler' = ml_scaler]_vars

\* C18 witness: the cycle has appended a game, has trained and replaced the
\* model, and is at check_and_resolve_games.
C18_Witness ==
    \E t \in CycleThreads :
        /\ cycle[t].pc = "resolve"
        /\ cycle[t].has_new
        /\ generation.model = cycle[t].generation
        /\ generation.model > 0

\* C19: a retraining that fails at load_data, add_features, train_all_models
\* or save_model leaves ml_model and ml_scaler as they were, and an ingestion
\* that fails or returns no finished game leaves the CSV and game_data as
\* they were.
C19_FailureKeepsState ==
    [][\A t \in CycleThreads :
          /\ (Acting(t) /\ cycle[t].pc = "retrain" /\ train'.error # "") =>
                /\ ml_model' = ml_model /\ ml_scaler' = ml_scaler
                /\ generation' = generation
                /\ cycle'[t].pc = "resolve"
          /\ (Acting(t) /\ cycle[t].pc \in {"set_model", "set_scaler"}) => train.error = ""
          /\ ((\E read_ok \in BOOLEAN : update_game_data(t, FALSE, read_ok))
               \/ (fetch_latest_results(schedule, TRUE) = <<>> /\ Acting(t) /\ cycle[t].pc = "update"))
                => (csv' = csv /\ game_data' = game_data)]_vars

\* C19 witness: a retraining after an append has failed at save_model and the
\* model loaded at the start is still the one in use.
C19_Witness ==
    \E t \in CycleThreads :
        /\ cycle[t].pc = "resolve"
        /\ cycle[t].has_new
        /\ train.error = "OSError"
        /\ ml_model = "Gradient Boosting"
        /\ generation.model = 0

\* C20: the model and the scaler a call of get_model_prediction has used come
\* from the same training run.
C20_ReaderSeesOneGeneration ==
    reader.pc = "idle" => reader.generation.model = reader.generation.scaler

\* The rows of a file, none for no file.
StoreRows(file) == IF file.none THEN <<>> ELSE file.rows

\* C21: at most one thread is between the read of leafs_data.csv and its
\* write at a time, and no game_id is in the file twice.
C21_AppendsSerialized ==
    /\ Cardinality({t \in CycleThreads : cycle[t].pc \in LockedSection}) <= 1
    /\ \A i \in DOMAIN StoreRows(csv), j \in DOMAIN StoreRows(csv) :
          StoreRows(csv)[i].game_id = StoreRows(csv)[j].game_id => i = j

\* C21 witness: a thread is about to write a game to the file while the
\* other one waits for the lock, and the file has a game a cycle appended.
C21_Witness ==
    \E t \in CycleThreads, u \in CycleThreads :
        /\ cycle[t].pc = "to_csv"
        /\ cycle[u].pc = "update"
        /\ Len(StoreRows(csv)) > Len(RecentHistory)

\* C22: every step leaves the rows the file had in place, in their order and
\* with their values; the rows it adds are at the end, for games the feed
\* reports as finished and the file did not have.
C22_AppendOnly ==
    [][/\ Len(StoreRows(csv')) >= Len(StoreRows(csv))
       /\ SubSeq(StoreRows(csv'), 1, Len(StoreRows(csv))) = StoreRows(csv)
       /\ \A k \in DOMAIN StoreRows(csv') :
             k > Len(StoreRows(csv)) =>
                /\ StoreRows(csv')[k].game_id \in Games
                /\ schedule[StoreRows(csv')[k].game_id].gameState \in {"OFF", "FINAL"}
                /\ \A i \in DOMAIN StoreRows(csv) : StoreRows(csv)[i].game_id # StoreRows(csv')[k].game_id]_vars

\* C22 witness: the file holds the five games it had at the start and the
\* two games of the feed after them.
C22_Witness ==
    /\ Len(StoreRows(csv)) = Len(RecentHistory) + 2
    /\ SubSeq(StoreRows(csv), 1, Len(RecentHistory)) = SeasonTable(RecentHistory)

\* C23: the rows of the file are in non-decreasing date order.
C23_DateOrder ==
    \A i \in DOMAIN StoreRows(csv), j \in DOMAIN StoreRows(csv) :
        i < j => StoreRows(csv)[i].date <= StoreRows(csv)[j].date

\* C24: every row after the first has rest_days equal to the days since the
\* row before it, capped at 7, and not negative.
C24_RestDaysFromPrecedingRow ==
    \A i \in DOMAIN StoreRows(csv) :
        i > 1 =>
            /\ StoreRows(csv)[i].rest_days = Min(StoreRows(csv)[i].date - StoreRows(csv)[i - 1].date, 7)
            /\ StoreRows(csv)[i].rest_days >= 0

\* C25: a row is inserted only for a game of the schedule whose state at
\* that moment is FUT or PRE.
C25_SubmittedBeforeGame ==
    [][Len(predictions') > Len(predictions) =>
          /\ predictions'[Len(predictions')].game_id \in DOMAIN schedule
          /\ schedule[predictions'[Len(predictions')].game_id].gameState \in {"FUT", "PRE"}]_vars

\* C26: no row of the ledger carries a negative score: a form with a
\* negative or non-integer score has stored nothing.
C26_MalformedScoreRejected ==
    \A i \in DOMAIN predictions :
        predictions[i].user_score_leafs >= 0 /\ predictions[i].user_score_opponent >= 0

\* C28: a row becomes resolved only while its game is in the feed with state
\* OFF or FINAL; the scores recorded are those of the Leafs' side and the
\* other side, and actual_result is W exactly when the first is above the
\* second, L otherwise.
C28_ResolvesOnlyFinishedGames ==
    [][\A i \in DOMAIN predictions :
          (predictions[i].is_resolved = 0 /\ predictions'[i].is_resolved = 1) =>
             /\ predictions[i].game_id \in DOMAIN schedule
             /\ schedule[predictions[i].game_id].gameState \in {"OFF", "FINAL"}
             /\ predictions'[i].actual_score_leafs =
                   (IF schedule[predictions[i].game_id].homeTeam.abbrev = TEAM
                    THEN schedule[predictions[i].game_id].homeTeam.score
                    ELSE schedule[predictions[i].game_id].awayTeam.score)
             /\ predictions'[i].actual_score_opponent =
                   (IF schedule[predictions[i].game_id].homeTeam.abbrev = TEAM
                    THEN schedule[predictions[i].game_id].awayTeam.score
                    ELSE schedule[predictions[i].game_id].homeTeam.score)
             /\ predictions'[i].actual_result \in {"W", "L"}
             /\ (predictions'[i].actual_result = "W") <=> (predictions'[i].actual_score_leafs > predictions'[i].actual_score_opponent)]_vars

\* C28 witness: the away game is over and its row is resolved as a win with
\* the away side's goal as the Leafs' score, while the row of a game the feed
\* does not list is still pending after every game is official.
C28_Witness ==
    \E i \in DOMAIN predictions, j \in DOMAIN predictions :
        /\ predictions[i].game_id = 2
        /\ predictions[i].is_resolved = 1
        /\ predictions[i].actual_result = "W"
        /\ predictions[i].actual_score_leafs = 1
        /\ predictions[j].game_id \notin DOMAIN schedule
        /\ predictions[j].is_resolved = 0
        /\ \A g \in Games : schedule[g].gameState = "OFF"

\* C30: in the leaderboard every user row has exact <= correct <=
\* total_games and total_points = correct + 2 * exact, and the model row has
\* total_points = correct <= total_games.
C30_LeaderboardCounts ==
    /\ \A k \in DOMAIN get_leaderboard(predictions).users :
          /\ get_leaderboard(predictions).users[k].exact <= get_leaderboard(predictions).users[k].correct
          /\ get_leaderboard(predictions).users[k].correct <= get_leaderboard(predictions).users[k].total_games
          /\ get_leaderboard(predictions).users[k].total_points =
                get_leaderboard(predictions).users[k].correct + 2 * get_leaderboard(predictions).users[k].exact
    /\ get_leaderboard(predictions).model.total_points = get_leaderboard(predictions).model.correct
    /\ get_leaderboard(predictions).model.correct <= get_leaderboard(predictions).model.total_games

\* C30 witness: a user has two resolved rows, both right and one of them
\* exact, for four points.
C30_Witness ==
    \E k \in DOMAIN get_leaderboard(predictions).users :
        /\ get_leaderboard(predictions).users[k].total_games = 2
        /\ get_leaderboard(predictions).users[k].correct = 2
        /\ get_leaderboard(predictions).users[k].exact = 1
        /\ get_leaderboard(predictions).users[k].total_points = 4

\* The ledger with every row as its INSERT left it.
Unresolved(preds) ==
    [i \in DOMAIN preds |->
        [preds[i] EXCEPT !.actual_result = NULL, !.actual_score_leafs = NULL,
                         !.actual_score_opponent = NULL, !.user_points = 0,
                         !.model_points = 0, !.is_resolved = 0]]

\* The ledger after one run of check_and_resolve_games alone over the rows
\* as submitted and the feed as it is.
SingleRun ==
    ResolveAll(Unresolved(predictions), get_pending_predictions(Unresolved(predictions)), schedule)

\* C29: with two passes side by side over one state of the feed, every row
\* is as submitted or as a single run leaves it; when a pass that has read
\* the feed ends, the ledger is the one a single run leaves, and the
\* leaderboard counts each resolved row once.
C29_SameAsSingleRun ==
    /\ \A i \in DOMAIN predictions : predictions[i] \in {Unresolved(predictions)[i], SingleRun[i]}
    /\ \A t \in Threads :
          (pc[t] = "loop" /\ pending[t] = <<>>) =>
             /\ predictions = SingleRun
             /\ get_leaderboard(predictions).model.total_games = Len(Resolved(SingleRun))
             /\ get_leaderboard(predictions).model.total_points = SumModelPoints(Resolved(SingleRun))

\* C29 witness: both threads are in the loop over the same two rows; one
\* has resolved them all and the other is about to resolve them again.
C29_Witness ==
    /\ pc["AutoUpdateScheduler"] = "loop" /\ pc["index"] = "loop"
    /\ pending["AutoUpdateScheduler"] = <<>>
    /\ Len(pending["index"]) = 2
    /\ all_games["AutoUpdateScheduler"] = all_games["index"]
    /\ \A i \in DOMAIN predictions : predictions[i].is_resolved = 1

====
